---- MODULE Spec2Model ----
(***************************************************************************)
(* Model of demo_2d_finite_Dirichlet_GMM.py: the data generator (lines     *)
(* 116-121), the renderer helpers plot_contours / plot_results /           *)
(* init_plots, and the fit / redraw / prompt loop of lines 126-157.        *)
(* The estimator (sklearn BayesianGaussianMixture) is external: a fit call *)
(* returns some weight vector summing to one and some convergence flag, or *)
(* raises.                                                                 *)
(***************************************************************************)
EXTENDS Integers, Sequences, FiniteSets, TLC

VARIABLES
    pc,          \* position of the script in lines 136-157
    nSlots,      \* estimator component-slot count (means_.shape[0])
    converged_,  \* estimator.converged_
    weights_,    \* estimator.weights_, in units of 1/nSlots
    xx,          \* the script's xx, yy (one value: they are set together)
    ax1,         \* artists on the contour axes
    ax2,         \* bars on the weight axes
    new_colors,  \* palette built by the last plot_contours call
    meshUsed,    \* mesh handed to the last plot_results call
    fits,        \* fit calls that returned
    redraws,     \* plot_results calls that returned
    prompts,     \* raw_input calls that returned
    acksSinceRedraw, \* raw_input calls that returned since the last redraw
    meshCalls,   \* np.meshgrid evaluations
    printed,     \* line 156 has run
    failed,      \* an exception was raised
    samples,     \* per-component sample counts
    seed,        \* per run: argument of np.random.RandomState
    gseed,       \* per run: argument of np.random.seed
    rng,         \* per run: the generator's own stream
    grng,        \* per run: the global numpy stream
    parts,       \* per run: arrays drawn so far by the comprehension of line 117
    X,           \* per run: the points
    y,           \* per run: the labels
    gpc          \* per run: position of the generator

mainVars == <<pc, nSlots, converged_, weights_, xx, ax1, ax2, new_colors,
              meshUsed, fits, redraws, prompts, acksSinceRedraw, meshCalls,
              printed, failed>>
genVars == <<samples, seed, gseed, rng, grng, parts, X, y, gpc>>
vars == <<mainVars, genVars>>

----------------------------------------------------------------------------
(* Bounds *)

\* The estimator reports convergence by its MaxFits-th call at the latest.
MaxFits == 4
\* Largest component-slot count tried (the script configures 3 * 6 = 18).
MaxSlots == 18
\* Largest per-component sample count tried besides the script's own counts.
MaxSamples == 2
\* Number of distinct values a stream output takes in the model.
NoiseLevels == 5

----------------------------------------------------------------------------
(* Program constants *)

n_components == 6
n_features == 2
random_state == 2
SMALL_PROBS == 0
\* colors.shape[0]
NumColors == 6
\* len(mcd.CSS4_COLORS)
NumCSS4 == 148

Min(a, b) == IF a < b THEN a ELSE b
Max(a, b) == IF a > b THEN a ELSE b

\* colors, as a 0-indexed array held in a sequence
colors == [i \in 1..NumColors |-> <<"colors", i - 1>>]

\* list(mcd.CSS4_COLORS.values())
CSS4 == [i \in 1..NumCSS4 |-> <<"CSS4", i - 1>>]

----------------------------------------------------------------------------
(* Python list semantics used by plot_contours *)

\* s[0:stop:step] for step > 0
PySlice(s, stop, step) ==
    LET hi == IF stop < 0 THEN Max(0, Len(s) + stop) ELSE Min(stop, Len(s))
        cnt == (hi + step - 1) \div step
    IN [k \in 1..cnt |-> s[(k - 1) * step + 1]]

\* whether s[i] raises IndexError
PyIndexOk(s, i) == i >= -Len(s) /\ i < Len(s)

\* s[i], negative indices counting from the end
PyIndex(s, i) == IF i < 0 THEN s[Len(s) + i + 1] ELSE s[i + 1]

----------------------------------------------------------------------------
(* plot_contours, lines 27-38 *)

\* lines 28-31: the palette for m components
ExtendedColors(m) ==
    IF NumColors < m
    THEN colors \o PySlice(CSS4, 4 * ((m - NumColors) - 1), 4)
    ELSE colors

\* variant: the palette indexed by n itself
ColorIndexPlain(n) == n
\* line 38: the index used for component n
ColorIndex(n) == n - 1

\* lines 35-38: the loop raises at the first index out of range
ContoursOk(m) ==
    \A n \in 0..(m - 1) : PyIndexOk(ExtendedColors(m), ColorIndex(n))

\* lines 35-38: the outline contours, one per loop iteration, by colour
Contours(m) ==
    [k \in 1..m |-> PyIndex(ExtendedColors(m), ColorIndex(k - 1))]

----------------------------------------------------------------------------
(* plot_results, lines 42-58 *)

\* variant: weights at the threshold kept too
KeepAtThreshold(w) == w >= SMALL_PROBS
\* line 48: the comparison weights_ > SMALL_PROBS
Keep(w) == w > SMALL_PROBS

\* lines 48-51: one bar per kept weight, in slot order
Bars(w) == SelectSeq(w, Keep)

----------------------------------------------------------------------------
(* The estimator, external: what a fit call may return *)

\* weights on the slots of S, the rest of the unit mass on the first of them
WeightsOn(m, S) ==
    LET first == CHOOSE s \in S : \A t \in S : s <= t
    IN [s \in 1..m |-> IF s \notin S THEN 0
                        ELSE IF s = first THEN m - Cardinality(S) + 1
                        ELSE 1]

\* the slot sets left with weight above zero that the model tries
Supports(m) == {1..k : k \in 1..m} \cup {{m}}

\* weight vectors a fit call may leave in estimator.weights_
FitOutcomes(m) == {WeightsOn(m, S) : S \in Supports(m)}

----------------------------------------------------------------------------
(* init_plots, lines 62-83 *)

\* lines 75-82: the xx, yy returned
InitPlotsMesh(generate_mesh) == IF generate_mesh THEN "grid" ELSE "empty"

\* line 64: one scatter collection added to ax1
Scatter(ax) == [ax EXCEPT !.scatter = @ + 1]

\* ax.clear()
ClearedAx1 == [scatter |-> 0, contourf |-> 0, contour |-> <<>>]

----------------------------------------------------------------------------
(* Steps of the script, lines 126-157 *)

\* an uncaught exception at line `at`
Raise(at) ==
    /\ pc = at
    /\ failed' = TRUE
    /\ pc' = "crashed"
    /\ UNCHANGED <<genVars, nSlots, converged_, weights_, xx, ax1, ax2, new_colors,
                   meshUsed, fits, redraws, prompts, acksSinceRedraw,
                   meshCalls, printed>>

\* raw_input(...) returning at line `at`
Prompt(at, to) ==
    /\ pc = at
    /\ pc' = to
    /\ prompts' = prompts + 1
    /\ acksSinceRedraw' = acksSinceRedraw + 1
    /\ UNCHANGED <<genVars, nSlots, converged_, weights_, xx, ax1, ax2, new_colors,
                   meshUsed, fits, redraws, meshCalls, printed, failed>>

\* estimator.fit(X) returning at line `at`
Fit(at, to) ==
    /\ pc = at
    /\ fits < MaxFits
    /\ \E w \in FitOutcomes(nSlots), c \in BOOLEAN :
          /\ (~c) => fits + 1 < MaxFits
          /\ weights_' = w
          /\ converged_' = c
    /\ fits' = fits + 1
    /\ pc' = to
    /\ UNCHANGED <<genVars, nSlots, xx, ax1, ax2, new_colors, meshUsed, redraws,
                   prompts, acksSinceRedraw, meshCalls, printed, failed>>

\* ax1.clear(); ax2.clear()
Clear(at, to) ==
    /\ pc = at
    /\ pc' = to
    /\ ax1' = ClearedAx1
    /\ ax2' = <<>>
    /\ UNCHANGED <<genVars, nSlots, converged_, weights_, xx, new_colors, meshUsed,
                   fits, redraws, prompts, acksSinceRedraw, meshCalls,
                   printed, failed>>

\* init_plots(...) at line `at`; `keep` says whether the caller assigns the
\* returned xx, yy to its own xx, yy
InitPlots(at, to, generate_mesh, keep) ==
    /\ pc = at
    /\ pc' = to
    /\ ax1' = Scatter(ax1)
    /\ meshCalls' = IF generate_mesh THEN meshCalls + 1 ELSE meshCalls
    /\ xx' = IF keep THEN InitPlotsMesh(generate_mesh) ELSE xx
    /\ UNCHANGED <<genVars, nSlots, converged_, weights_, ax2, new_colors, meshUsed,
                   fits, redraws, prompts, acksSinceRedraw, printed, failed>>

\* plot_results(ax1, ax2, estimator, xx, yy); plt.pause(...)
PlotResults(at, to) ==
    /\ pc = at
    /\ meshUsed' = xx
    /\ new_colors' = ExtendedColors(nSlots)
    /\ IF xx = "grid" /\ ContoursOk(nSlots)
       THEN /\ ax1' = [ax1 EXCEPT !.contourf = @ + 1,
                                  !.contour = @ \o Contours(nSlots)]
            /\ ax2' = ax2 \o Bars(weights_)
            /\ redraws' = redraws + 1
            /\ acksSinceRedraw' = 0
            /\ pc' = to
            /\ UNCHANGED failed
       ELSE /\ failed' = TRUE
            /\ pc' = "crashed"
            /\ UNCHANGED <<ax1, ax2, redraws, acksSinceRedraw>>
    /\ UNCHANGED <<genVars, nSlots, converged_, weights_, xx, fits, prompts,
                   meshCalls, printed>>

\* line 136 (and plt.pause of line 138)
InitPlots0 == InitPlots("L136", "L139", FALSE, TRUE)
\* line 139
Prompt1 == Prompt("L139", "L140")
Prompt1Fail == Raise("L139")
\* line 140
Fit1 == Fit("L140", "L141")
Fit1Fail == Raise("L140")
\* lines 141-142
Clear1 == Clear("L141", "L143")
\* lines 143-144
InitPlots1 == InitPlots("L143", "L145", TRUE, TRUE)
\* lines 145-146
PlotResults1 == PlotResults("L145", "L147")
\* line 147
Prompt2 == Prompt("L147", "L148")
Prompt2Fail == Raise("L147")

\* variant: the loop test ignored
WhileAlways ==
    /\ pc = "L148"
    /\ pc' = "L149"
    /\ UNCHANGED <<genVars, nSlots, converged_, weights_, xx, ax1, ax2, new_colors,
                   meshUsed, fits, redraws, prompts, acksSinceRedraw,
                   meshCalls, printed, failed>>
\* line 148
While ==
    /\ pc = "L148"
    /\ pc' = IF ~converged_ THEN "L149" ELSE "L156"
    /\ UNCHANGED <<genVars, nSlots, converged_, weights_, xx, ax1, ax2, new_colors,
                   meshUsed, fits, redraws, prompts, acksSinceRedraw,
                   meshCalls, printed, failed>>

\* variant: the loop left as soon as the flag is set, before the redraw
Fit2SkipsLastFrame ==
    \/ /\ Fit("L149", "L150")
       /\ ~converged_'
    \/ /\ Fit("L149", "L148")
       /\ converged_'
\* line 149
Fit2 == Fit("L149", "L150")
\* variant: the exception caught and the loop resumed
Fit2FailSwallowed ==
    /\ pc = "L149"
    /\ failed' = TRUE
    /\ pc' = "L148"
    /\ UNCHANGED <<genVars, nSlots, converged_, weights_, xx, ax1, ax2, new_colors,
                   meshUsed, fits, redraws, prompts, acksSinceRedraw,
                   meshCalls, printed>>
Fit2Fail == Raise("L149")
\* lines 150-151
Clear2 == Clear("L150", "L152")
\* variant: the returned xx, yy assigned to xx, yy
InitPlots2KeepsMesh == InitPlots("L152", "L154", FALSE, TRUE)
\* lines 152-153
InitPlots2 == InitPlots("L152", "L154", FALSE, FALSE)
\* variant: a prompt after every redraw of the loop
PlotResults2ThenPrompt == PlotResults("L154", "L147")
\* lines 154-155
PlotResults2 == PlotResults("L154", "L148")
\* line 156
PrintConverged ==
    /\ pc = "L156"
    /\ pc' = "L157"
    /\ printed' = TRUE
    /\ UNCHANGED <<genVars, nSlots, converged_, weights_, xx, ax1, ax2, new_colors,
                   meshUsed, fits, redraws, prompts, acksSinceRedraw,
                   meshCalls, failed>>
\* line 157
Prompt3 == Prompt("L157", "done")
Prompt3Fail == Raise("L157")

----------------------------------------------------------------------------
(* The data generator, lines 86-121 *)

Runs == {1, 2}
Comps == 0..(n_components - 1)

\* line 96
samples_cfg == (0 :> 300) @@ (1 :> 500) @@ (2 :> 400) @@ (3 :> 400)
               @@ (4 :> 400) @@ (5 :> 300)

\* a numpy random stream: output number pos of the stream seeded with sd
StreamOut(sd, pos) == (sd * 3 + pos * (sd + 1)) % NoiseLevels

\* a freshly seeded stream
Seeded(sd) == [seed |-> sd, pos |-> 0]

\* stream.multivariate_normal(means[j], covars[j], n): n points, each the
\* image under component j's mean and covariance of n_features outputs
Mvn(s, j, n) ==
    [i \in 1..n |->
        [comp |-> j,
         z |-> [f \in 1..n_features |->
                   StreamOut(s.seed, s.pos + n_features * (i - 1) + (f - 1))]]]

\* the stream after that call
Advance(s, n) == [s EXCEPT !.pos = @ + n_features * n]

RECURSIVE Concat(_)
\* np.vstack / np.concatenate of a list of arrays
Concat(arrays) ==
    IF arrays = <<>> THEN <<>>
    ELSE Head(arrays) \o Concat(Tail(arrays))

\* variant: np.ones(samples[j], dtype=int) without the factor j
LabelBlockOnes(j) == [i \in 1..samples[j] |-> 1]
\* line 120: j * np.ones(samples[j], dtype=int)
LabelBlock(j) == [i \in 1..samples[j] |-> j]

\* variant: np.random.multivariate_normal, the global stream
DrawSourceGlobal == "np.random"
\* line 118: the stream multivariate_normal is called on
DrawSource == "rng"

\* line 116
SeedRng(r) ==
    /\ gpc[r] = "L116"
    /\ r > 1 => gpc[r - 1] = "done"
    /\ rng' = [rng EXCEPT ![r] = Seeded(seed[r])]
    /\ gpc' = [gpc EXCEPT ![r] = "L118"]
    /\ UNCHANGED <<mainVars, samples, seed, gseed, grng, parts, X, y>>

\* line 118, one iteration of the comprehension
Draw(r) ==
    /\ gpc[r] = "L118"
    /\ Len(parts[r]) < n_components
    /\ LET j == Len(parts[r])
           s == IF DrawSource = "rng" THEN rng[r] ELSE grng[r]
       IN /\ parts' = [parts EXCEPT ![r] = Append(@, Mvn(s, j, samples[j]))]
          /\ IF DrawSource = "rng"
             THEN /\ rng' = [rng EXCEPT ![r] = Advance(s, samples[j])]
                  /\ UNCHANGED grng
             ELSE /\ grng' = [grng EXCEPT ![r] = Advance(s, samples[j])]
                  /\ UNCHANGED rng
    /\ UNCHANGED <<mainVars, samples, seed, gseed, X, y, gpc>>

\* line 117: np.vstack of the comprehension's list
VStack(r) ==
    /\ gpc[r] = "L118"
    /\ Len(parts[r]) = n_components
    /\ X' = [X EXCEPT ![r] = Concat(parts[r])]
    /\ gpc' = [gpc EXCEPT ![r] = "L120"]
    /\ UNCHANGED <<mainVars, samples, seed, gseed, rng, grng, parts, y>>

\* lines 120-121
Labels(r) ==
    /\ gpc[r] = "L120"
    /\ y' = [y EXCEPT ![r] = Concat([k \in 1..n_components |-> LabelBlock(k - 1)])]
    /\ gpc' = [gpc EXCEPT ![r] = "done"]
    /\ UNCHANGED <<mainVars, samples, seed, gseed, rng, grng, parts, X>>

----------------------------------------------------------------------------
(* Initial states *)

\* the script at line 136, before the first init_plots call
MainInit ==
    /\ pc = "L136"
    /\ converged_ = FALSE
    /\ weights_ = <<>>
    /\ xx = "unset"
    /\ ax1 = ClearedAx1
    /\ ax2 = <<>>
    /\ new_colors = colors
    /\ meshUsed = "none"
    /\ fits = 0
    /\ redraws = 0
    /\ prompts = 0
    /\ acksSinceRedraw = 0
    /\ meshCalls = 0
    /\ printed = FALSE
    /\ failed = FALSE

\* sample-count tables tried: the script's own and every small one
SampleConfigs == {samples_cfg} \cup [Comps -> 0..MaxSamples]

\* seeds tried for the second run's own stream
Seeds == {random_state, random_state + 1}

\* arguments of np.random.seed tried for the second run (line 16 passes 1)
GlobalSeeds == {1, 4}

\* two runs of the generator about to start; the first as the script
\* configures it
GenInit ==
    /\ samples \in SampleConfigs
    /\ seed \in {f \in [Runs -> Seeds] : f[1] = random_state}
    /\ gseed \in {f \in [Runs -> GlobalSeeds] : f[1] = 1}
    /\ rng = [r \in Runs |-> Seeded(0)]
    /\ grng = [r \in Runs |-> Seeded(gseed[r])]
    /\ parts = [r \in Runs |-> <<>>]
    /\ X = [r \in Runs |-> <<>>]
    /\ y = [r \in Runs |-> <<>>]
    /\ gpc = [r \in Runs |-> "L116"]

\* the generator's variables once lines 116-121 have run, for one point per
\* component
GenDone ==
    /\ samples = [j \in Comps |-> 1]
    /\ seed = [r \in Runs |-> random_state]
    /\ gseed = [r \in Runs |-> 1]
    /\ rng = [r \in Runs |-> [seed |-> random_state,
                               pos |-> n_features * n_components]]
    /\ grng = [r \in Runs |-> Seeded(1)]
    /\ parts = [r \in Runs |->
                  [k \in 1..n_components |->
                      Mvn([seed |-> random_state, pos |-> n_features * (k - 1)],
                          k - 1, 1)]]
    /\ X = [r \in Runs |-> Concat(parts[r])]
    /\ y = [r \in Runs |-> [k \in 1..n_components |-> k - 1]]
    /\ gpc = [r \in Runs |-> "done"]

----------------------------------------------------------------------------
(* Specifications *)

\* the fit / redraw / prompt loop, for every slot count up to MaxSlots
Init ==
    /\ MainInit
    /\ nSlots \in 1..MaxSlots
    /\ GenDone

Next ==
    \/ InitPlots0
    \/ Prompt1
    \/ Prompt1Fail
    \/ Fit1
    \/ Fit1Fail
    \/ Clear1
    \/ InitPlots1
    \/ PlotResults1
    \/ Prompt2
    \/ Prompt2Fail
    \/ While
    \/ Fit2
    \/ Fit2Fail
    \/ Clear2
    \/ InitPlots2
    \/ PlotResults2
    \/ PrintConverged
    \/ Prompt3
    \/ Prompt3Fail

Spec == Init /\ [][Next]_vars

\* steps that do not raise
Proceed ==
    \/ InitPlots0 \/ Prompt1 \/ Fit1 \/ Clear1 \/ InitPlots1 \/ PlotResults1
    \/ Prompt2 \/ While \/ Fit2 \/ Clear2 \/ InitPlots2 \/ PlotResults2
    \/ PrintConverged \/ Prompt3

\* the script is one thread that runs on unless it raises; every prompt is
\* answered sooner or later
LiveSpec == Init /\ [][Next]_vars /\ WF_vars(Proceed)

\* the generator alone, run twice
GenInitAll ==
    /\ MainInit
    /\ nSlots = 3 * n_components
    /\ GenInit

GenNext ==
    \/ \E r \in Runs : SeedRng(r)
    \/ \E r \in Runs : Draw(r)
    \/ \E r \in Runs : VStack(r)
    \/ \E r \in Runs : Labels(r)

GenSpec == GenInitAll /\ [][GenNext]_vars

----------------------------------------------------------------------------
(* Properties *)

\* lines of a redraw in progress: fit has returned, plot_results has not
Redrawing == pc \in {"L141", "L143", "L145", "L150", "L152", "L154"}

\* a Fitted frame is on screen
FrameShown == redraws >= 1 /\ ~Redrawing

\* C1 as stated: before every fit call of the convergence loop exactly one
\* prompt has been acknowledged since the previous Fitted redraw.
C1_PromptBetweenRedraws ==
    pc = "L149" => acksSinceRedraw = 1

\* C1 amended: one prompt is acknowledged before the first fit, one after the
\* first Fitted redraw and one after the loop ends; the redraws of the
\* convergence loop follow one another with no prompt in between, so a run
\* acknowledges three prompts whatever the number of fit calls.
C1_PromptsGateFirstAndLast ==
    /\ pc = "L140" => prompts = 1
    /\ pc = "L149" => acksSinceRedraw = (IF redraws = 1 THEN 1 ELSE 0)
    /\ pc = "done" => /\ prompts = 3
                      /\ acksSinceRedraw = (IF redraws = 1 THEN 2 ELSE 1)

C1_Witness ==
    pc = "done" /\ fits >= 3 /\ prompts = 3 /\ acksSinceRedraw = 1

\* C2: every fit call that returned has been followed by exactly one full
\* redraw (clear, init_plots, plot_results) of the weights it left, before
\* the next fit call and before the script ends.
C2_EveryFitRedrawnOnce ==
    /\ redraws = fits - (IF Redrawing THEN 1 ELSE 0)
    /\ (fits >= 1 /\ ~Redrawing) =>
          /\ ax1.scatter = 1
          /\ ax1.contourf = 1
          /\ Len(ax1.contour) = nSlots
          /\ ax2 = SelectSeq(weights_, LAMBDA w : w > SMALL_PROBS)

C2_Witness ==
    pc = "done" /\ fits >= 2 /\ redraws = fits /\ converged_

\* C3: fit is called again exactly when the flag is false after the previous
\* call; once it is true no fit follows, the flag is printed, the last prompt
\* is issued and the script ends only when it is acknowledged; and the script
\* does end.
C3_FitUntilConverged ==
    /\ [][(fits' # fits /\ fits >= 1) => ~converged_]_vars
    /\ [][(pc = "L148" /\ ~converged_) => pc' = "L149"]_vars
    /\ [](pc \in {"L156", "L157", "done"} => converged_)
    /\ [](printed => converged_)
    /\ [](pc = "done" => printed)
    /\ [][pc' = "done" => (pc = "L157" /\ prompts' = prompts + 1)]_vars
    /\ <>(pc \in {"done", "crashed"})

C3_Witness ==
    pc = "done" /\ printed /\ converged_ /\ fits >= 2

\* C4: the dataset has sum(samples) points (2300 for the script's counts),
\* label j occurs samples[j] times, and point i and label i come from the
\* same component, both in component order.
C4_DatasetShape ==
    \A r \in Runs : gpc[r] = "done" =>
        LET total == samples[0] + samples[1] + samples[2] + samples[3]
                     + samples[4] + samples[5]
        IN /\ Len(X[r]) = total
           /\ Len(y[r]) = total
           /\ samples = samples_cfg => Len(X[r]) = 2300
           /\ \A j \in Comps :
                 Cardinality({i \in 1..Len(y[r]) : y[r][i] = j}) = samples[j]
           /\ \A i \in 1..Len(X[r]) : X[r][i].comp = y[r][i]
           /\ \A i \in 1..(Len(y[r]) - 1) : y[r][i] <= y[r][i + 1]

C4_Witness ==
    gpc[1] = "done" /\ samples = samples_cfg /\ Len(X[1]) = 2300

\* C5: two runs of the generator with the same seed give the same points and
\* labels in the same order, whatever the global random state of each.
C5_SameSeedSameDataset ==
    (gpc[1] = "done" /\ gpc[2] = "done" /\ seed[1] = seed[2]) =>
        (X[1] = X[2] /\ y[1] = y[2])

C5_Witness ==
    /\ gpc[1] = "done" /\ gpc[2] = "done"
    /\ seed[1] = seed[2] /\ gseed[1] # gseed[2]
    /\ Len(X[1]) = 2 * n_components

\* C6: in every Fitted frame a slot has a bar exactly when its weight is
\* above SMALL_PROBS, the bars are in slot order, and every slot, with or
\* without a bar, is still in weights_ and has its contour.
C6_BarIffAboveThreshold ==
    FrameShown /\ redraws = fits =>
        LET kept(s) == {t \in 1..s : weights_[t] > SMALL_PROBS}
        IN /\ Len(weights_) = nSlots
           /\ Len(ax1.contour) = nSlots
           /\ Len(ax2) = Cardinality(kept(nSlots))
           /\ Len(ax2) \in 0..nSlots
           /\ \A s \in kept(nSlots) : ax2[Cardinality(kept(s))] = weights_[s]

C6_Witness ==
    /\ FrameShown /\ nSlots = 3 * n_components
    /\ Len(ax2) = n_components
    /\ weights_[nSlots] = 0

\* C7: the mesh is computed once, by the init_plots call of line 143; the
\* first rendering computes none; later redraws leave xx, yy as they are and
\* plot on that mesh.
C7_MeshComputedOnce ==
    /\ [](meshCalls <= 1)
    /\ [](fits = 0 => (meshCalls = 0 /\ xx \in {"unset", "empty"}))
    /\ [](pc = "L139" => xx = "empty")
    /\ [](redraws >= 1 => (meshCalls = 1 /\ xx = "grid" /\ meshUsed = "grid"))
    /\ [][meshCalls' # meshCalls => pc = "L143"]_vars
    /\ [][xx = "grid" => xx' = "grid"]_vars

C7_Witness ==
    pc = "done" /\ redraws >= 3 /\ meshCalls = 1 /\ meshUsed = "grid"

\* C8 as stated: one contour per component, and for more components than
\* palette colours the extended palette has at least one colour per
\* component.
C8_PaletteCoversComponents ==
    FrameShown =>
        /\ Len(ax1.contour) = nSlots
        /\ Len(new_colors) >= nSlots

\* C9: a failed fit call or prompt ends the script on the spot: the failing
\* step does nothing else, and nothing happens afterwards.
C9_FailureIsFatal ==
    /\ [](failed <=> pc = "crashed")
    /\ [][pc # "crashed"]_vars
    /\ [][failed' => (pc \in {"L139", "L140", "L147", "L149", "L157"}
                      /\ UNCHANGED <<fits, redraws, prompts, printed, ax1,
                                     ax2, weights_, converged_, xx>>)]_vars

C9_Witness ==
    pc = "crashed" /\ failed /\ fits >= 2 /\ ~printed

\* C10: for every slot count the index n - 1 is inside the palette for each
\* component n, so no redraw fails; component 0 takes the last palette entry
\* and, above six components, the same colour as the last component.
C10_ColorIndexInBounds ==
    /\ pc = "crashed" => redraws = fits
    /\ redraws >= 1 =>
          \A n \in 0..(nSlots - 1) :
              n - 1 >= -Len(new_colors) /\ n - 1 < Len(new_colors)
    /\ FrameShown =>
          /\ Len(ax1.contour) = nSlots
          /\ ax1.contour[1] = new_colors[Len(new_colors)]
          /\ nSlots > NumColors => ax1.contour[1] = ax1.contour[nSlots]

C10_Witness ==
    /\ FrameShown /\ nSlots = 3 * n_components
    /\ ax1.contour[1] = <<"CSS4", 40>>
    /\ ax1.contour[nSlots] = <<"CSS4", 40>>

====
